---- MODULE Spec2Model ----
(***************************************************************************)
(* A model of src/src/alloc.c: a free-list heap allocator on top of sbrk.  *)
(* Memory is an array of 16-byte cells; a cell is either a block header    *)
(* (free_block: size, next) or 16 bytes of payload seen as two words.      *)
(* The allocator's globals are HEAD and next_fit_ptr; brk is the program   *)
(* break.  size_t is SizeBits wide and int is IntBits wide.                *)
(***************************************************************************)
EXTENDS Integers, Naturals, Sequences, FiniteSets, TLC

\* ---------------------------------------------------------------- bounds
SizeBits == 10          \* width of size_t / intptr_t in the model
IntBits  == 6           \* width of int: block sizes can exceed INT_MAX, as in the build
MaxCells == 6           \* 16-byte cells of mapped memory above the base
MaxCalls == 6           \* calls (and caller writes) in a run

\* ------------------------------------------------------------- constants
ALIGNMENT   == 16       \* alloc.c:8
HeaderWidth == 16       \* sizeof(free_block): two 8-byte fields (alloc.h)
NULL        == 0
SbrkFail    == -1       \* (void *)-1
Base        == ALIGNMENT    \* initial program break: a non-null aligned address
Pats        == {1}          \* the words a caller writes into its payload

SizeMod == 2 ^ SizeBits
IntMod  == 2 ^ IntBits
MaxBrk  == Base + ALIGNMENT * MaxCells
Addrs   == {Base + ALIGNMENT * i : i \in 0 .. (MaxCells - 1)}

ZeroCell == [size |-> 0, next |-> NULL]

\* ---------------------------------------------------- integer conversions
\* value of a SizeBits-wide unsigned word read as intptr_t
ToIntptr(x) == IF x >= SizeMod \div 2 THEN x - SizeMod ELSE x
\* size_t -> int (the parameter of split)
ToInt(x) == LET t == x % IntMod IN IF t >= IntMod \div 2 THEN t - IntMod ELSE t
\* int -> size_t (usual arithmetic conversion in split's comparison)
ToSize(i) == i % SizeMod
\* size = (size + ALIGNMENT - 1) & ~(ALIGNMENT - 1)
AlignUp(size) == LET s == (size + ALIGNMENT - 1) % SizeMod IN s - (s % ALIGNMENT)

\* ------------------------------------------------------------------ state
VARIABLES mem,            \* [Addrs -> [size, next]]: the cells
          HEAD,           \* head of the free list
          next_fit_ptr,   \* next-fit cursor
          brk,            \* program break
          blocks,         \* headers created by growth or split (history)
          pc,             \* "run", "crashed" (fault) or "hung" (endless loop)
          live,           \* pointers returned to the caller and not released
          dup,            \* live pointers that two allocations returned
          released,       \* pointers released and not handed out since
          op,             \* the last call and its result (history)
          calls           \* number of calls made so far

vars == <<mem, HEAD, next_fit_ptr, brk, blocks, pc, live, dup, released, op, calls>>

\* the allocator's part of the state, as the functions below thread it
Heap == [mem |-> mem, HEAD |-> HEAD, next_fit_ptr |-> next_fit_ptr,
         brk |-> brk, blocks |-> blocks]

Out(h, ret, st) == [h |-> h, ret |-> ret, st |-> st]

\* ------------------------------------------------------------------- sbrk
\* sbrk(increment): the increment is an intptr_t.  The break never goes below
\* its initial value nor (in the model) above MaxBrk; the system may deny any
\* extension (osOK = FALSE).  Returns the previous break or (void *)-1.
sbrk(h, increment, osOK) ==
  IF \/ ToIntptr(increment) > 0 /\ ~osOK
     \/ h.brk + ToIntptr(increment) < Base
     \/ h.brk + ToIntptr(increment) > MaxBrk
  THEN [brk |-> h.brk, ret |-> SbrkFail]
  ELSE [brk |-> h.brk + ToIntptr(increment), ret |-> h.brk]

\* ------------------------------------------------------------------ split
\* split(block, size): size arrives as an int.  The remainder header is written
\* inside the block; block->next is left as it was.
split(h, block, size) ==
  IF h.mem[block].size < (ToSize(size) + HeaderWidth) % SizeMod
  THEN Out(h, NULL, "run")
  ELSE LET split_pnt == block + size + HeaderWidth
       IN  IF split_pnt \notin Addrs
           THEN Out(h, NULL, "crashed")
           ELSE LET new_block == [size |-> (h.mem[block].size - ToSize(size)
                                              - HeaderWidth) % SizeMod,
                                  next |-> h.mem[block].next]
                    m1 == [h.mem EXCEPT ![split_pnt] = new_block]
                    m2 == [m1 EXCEPT ![block].size = ToSize(size)]
                IN  Out([h EXCEPT !.mem = m2,
                                  !.blocks = h.blocks \cup {split_pnt}],
                        block, "run")

\* --------------------------------------------------------- the list walks
\* A walk over next links visits at most MaxCells distinct cells; a walk that
\* is still going after MaxCells steps has entered a cycle and never ends
\* ("hung").  A link that is neither NULL nor a mapped cell faults ("wild").

\* the while loop of tumalloc: the first block from current on with size >= size
RECURSIVE scan(_, _, _, _, _)
scan(m, size, current, prev, fuel) ==
  IF current = NULL THEN [kind |-> "miss", current |-> NULL, prev |-> prev]
  ELSE IF current \notin Addrs THEN [kind |-> "wild", current |-> current, prev |-> prev]
  ELSE IF fuel = 0 THEN [kind |-> "hung", current |-> current, prev |-> prev]
  ELSE IF m[current].size >= size THEN [kind |-> "fit", current |-> current, prev |-> prev]
  ELSE scan(m, size, m[current].next, current, fuel - 1)

\* ----------------------------------------------------------------tumalloc
\* lines 190-194: the cursor moves to the block after current, or to the head
advance(h, current) ==
  Out([h EXCEPT !.next_fit_ptr = IF h.mem[current].next # NULL
                                 THEN h.mem[current].next ELSE h.HEAD],
      current + HeaderWidth, "run")

\* lines 183-188: current is unlinked through prev, or through HEAD when the
\* scan met no block before it
unlink(h, current, prev) ==
  IF prev # NULL
  THEN [h EXCEPT !.mem[prev].next = h.mem[current].next]
  ELSE [h EXCEPT !.HEAD = h.mem[current].next]

\* lines 177-194: the block the scan stopped at is split if it is large
\* enough, unlinked and handed out
serve(h, size, current, prev) ==
  IF h.mem[current].size > (size + HeaderWidth) % SizeMod
  THEN IF split(h, current, ToInt(size)).st # "run"
       THEN Out(h, NULL, "crashed")
       ELSE advance(unlink(split(h, current, ToInt(size)).h, current, prev), current)
  ELSE advance(unlink(h, current, prev), current)

\* lines 201-215: b is what sbrk answered.  ubOK: a header written at or above
\* the break (sbrk of an increment <= 0) lands in mapped memory instead of
\* faulting.
grow(h, size, b, ubOK) ==
  IF b.ret = SbrkFail THEN Out(h, NULL, "run")
  ELSE IF b.ret + HeaderWidth > b.brk /\ (~ubOK \/ b.ret \notin Addrs)
  THEN Out([h EXCEPT !.brk = b.brk], NULL, "crashed")
  ELSE Out([h EXCEPT !.brk = b.brk,
                     !.mem[b.ret] = [size |-> size, next |-> NULL],
                     !.next_fit_ptr = NULL,
                     !.blocks = h.blocks \cup {b.ret}],
           b.ret + HeaderWidth, "run")

\* lines 176-215 after the scan result f; osOK: the system grants an extension
dispatch(h, size, f, osOK, ubOK) ==
  CASE f.kind = "hung" -> Out(h, NULL, "hung")
    [] f.kind = "wild" -> Out(h, NULL, "crashed")
    [] f.kind = "fit"  -> serve(h, size, f.current, f.prev)
    [] f.kind = "miss" ->
         grow(h, size, sbrk(h, (size + HeaderWidth) % SizeMod, osOK), ubOK)

tumalloc(h, size, osOK, ubOK) ==
  dispatch(h, AlignUp(size),
           scan(h.mem, AlignUp(size),
                IF h.next_fit_ptr # NULL THEN h.next_fit_ptr ELSE h.HEAD,
                NULL, MaxCells),
           osOK, ubOK)

\* --------------------------------------------- the unused list functions
\* find_prev, find_next, remove_free_block, coalesce and do_alloc are defined
\* in alloc.c and called by none of tumalloc, tucalloc, turealloc, tufree.

\* find_prev(block): the first list member whose end is block's address
RECURSIVE find_prev_from(_, _, _, _)
find_prev_from(m, curr, block, fuel) ==
  IF curr = NULL THEN [ret |-> NULL, st |-> "run"]
  ELSE IF curr \notin Addrs THEN [ret |-> NULL, st |-> "crashed"]
  ELSE IF fuel = 0 THEN [ret |-> NULL, st |-> "hung"]
  ELSE IF (curr + m[curr].size + HeaderWidth) % SizeMod = block
       THEN [ret |-> curr, st |-> "run"]
  ELSE find_prev_from(m, m[curr].next, block, fuel - 1)

find_prev(h, block) == find_prev_from(h.mem, h.HEAD, block, MaxCells)

\* find_next(block): the first list member whose address is block's end
RECURSIVE find_next_from(_, _, _, _)
find_next_from(m, curr, block_end, fuel) ==
  IF curr = NULL THEN [ret |-> NULL, st |-> "run"]
  ELSE IF curr \notin Addrs THEN [ret |-> NULL, st |-> "crashed"]
  ELSE IF fuel = 0 THEN [ret |-> NULL, st |-> "hung"]
  ELSE IF curr = block_end THEN [ret |-> curr, st |-> "run"]
  ELSE find_next_from(m, m[curr].next, block_end, fuel - 1)

find_next(h, block) ==
  find_next_from(h.mem, h.HEAD,
                 (block + h.mem[block].size + HeaderWidth) % SizeMod, MaxCells)

\* remove_free_block(block): the first link that points to block skips it
RECURSIVE remove_from(_, _, _, _)
remove_from(h, curr, block, fuel) ==
  IF curr = NULL THEN Out(h, NULL, "run")
  ELSE IF curr \notin Addrs THEN Out(h, NULL, "crashed")
  ELSE IF fuel = 0 THEN Out(h, NULL, "hung")
  ELSE IF h.mem[curr].next = block
       THEN Out([h EXCEPT !.mem[curr].next = h.mem[block].next], NULL, "run")
  ELSE remove_from(h, h.mem[curr].next, block, fuel - 1)

remove_free_block(h, block) ==
  IF h.HEAD = block THEN Out([h EXCEPT !.HEAD = h.mem[block].next], NULL, "run")
  ELSE remove_from(h, h.HEAD, block, MaxCells)

\* lines 119-127: next is absorbed by block when it starts where block ends
merge_next(h, block, next) ==
  IF next # NULL /\ (block + h.mem[block].size + HeaderWidth) % SizeMod = next
  THEN Out([h EXCEPT !.mem[block] =
                       [size |-> (h.mem[block].size + h.mem[next].size
                                    + HeaderWidth) % SizeMod,
                        next |-> h.mem[next].next]],
           block, "run")
  ELSE Out(h, block, "run")

\* lines 105-116: block is absorbed by prev; prev's link skips block only when
\* it pointed at it.  Then lines 119-127 on the merged block.
merge_prev(h, block, prev, next) ==
  IF prev # NULL /\ (prev + h.mem[prev].size + HeaderWidth) % SizeMod = block
  THEN merge_next([h EXCEPT !.mem[prev] =
                      [size |-> (h.mem[prev].size + h.mem[block].size
                                   + HeaderWidth) % SizeMod,
                       next |-> IF h.mem[prev].next = block
                                THEN h.mem[block].next ELSE h.mem[prev].next]],
                  prev, next)
  ELSE merge_next(h, block, next)

coalesce(h, block) ==
  IF block = NULL THEN Out(h, NULL, "run")
  ELSE IF block \notin Addrs THEN Out(h, NULL, "crashed")
  ELSE IF find_prev(h, block).st # "run" THEN Out(h, NULL, find_prev(h, block).st)
  ELSE IF find_next(h, block).st # "run" THEN Out(h, NULL, find_next(h, block).st)
  ELSE merge_prev(h, block, find_prev(h, block).ret, find_next(h, block).ret)

\* do_alloc(size): sbrk(size + sizeof(free_block)) and a fresh header
do_alloc(h, size, osOK, ubOK) ==
  grow(h, size, sbrk(h, (size + HeaderWidth) % SizeMod, osOK), ubOK)

\* ------------------------------------------------------------------tufree
\* No check of the pointer, no coalesce: the block is pushed at the head.
tufree(h, ptr) ==
  IF ptr = NULL THEN Out(h, NULL, "run")
  ELSE LET block == ptr - HeaderWidth
       IN  IF block \notin Addrs THEN Out(h, NULL, "crashed")
           ELSE Out([h EXCEPT !.mem[block].next = h.HEAD, !.HEAD = block],
                    NULL, "run")

\* ------------------------------------------------------- memset / memcpy
\* the low k bytes of the 8-byte word d replaced by those of s (little endian)
MergeLow(d, s, k) ==
  IF k <= 0 THEN d
  ELSE IF k >= 8 \/ 8 * k >= SizeBits THEN s
  ELSE (s % (2 ^ (8 * k))) + (d - (d % (2 ^ (8 * k))))

\* the first k bytes of the cell d replaced by those of the cell s
MergeCell(d, s, k) ==
  [size |-> MergeLow(d.size, s.size, k), next |-> MergeLow(d.next, s.next, k - 8)]

Min(a, b) == IF a < b THEN a ELSE b

\* memset(ptr, 0, n): faults when it runs off the mapped cells
memset(m, ptr, n) ==
  IF n = 0 THEN [m |-> m, st |-> "run"]
  ELSE IF ptr \notin Addrs \/ ptr + n > MaxBrk THEN [m |-> m, st |-> "crashed"]
  ELSE [m |-> [a \in Addrs |->
                 IF a >= ptr /\ a < ptr + n
                 THEN MergeCell(m[a], ZeroCell, Min(ALIGNMENT, ptr + n - a))
                 ELSE m[a]],
        st |-> "run"]

\* memcpy(dst, src, n), the bytes taken from the memory as it was before the call
memcpy(m, dst, src, n) ==
  IF n = 0 THEN [m |-> m, st |-> "run"]
  ELSE IF dst \notin Addrs \/ src \notin Addrs \/ dst + n > MaxBrk \/ src + n > MaxBrk
  THEN [m |-> m, st |-> "crashed"]
  ELSE [m |-> [a \in Addrs |->
                 IF a >= dst /\ a < dst + n
                 THEN MergeCell(m[a], m[src + (a - dst)], Min(ALIGNMENT, dst + n - a))
                 ELSE m[a]],
        st |-> "run"]

\* ----------------------------------------------------------------tucalloc
\* lines 231-234 without the memset
zeroed_not(r, total_size) == r

\* lines 231-234: r is what tumalloc answered
zeroed(r, total_size) ==
  IF r.st # "run" \/ r.ret = NULL THEN r
  ELSE Out([r.h EXCEPT !.mem = memset(r.h.mem, r.ret, total_size).m], r.ret,
           memset(r.h.mem, r.ret, total_size).st)

tucalloc(h, num, size, osOK, ubOK) ==
  zeroed(tumalloc(h, (num * size) % SizeMod, osOK, ubOK), (num * size) % SizeMod)

\* ---------------------------------------------------------------turealloc
\* lines 257-258: c is what memcpy left; the old block is released
copied(r, c, ptr) ==
  IF c.st # "run" THEN Out([r.h EXCEPT !.mem = c.m], NULL, c.st)
  ELSE Out(tufree([r.h EXCEPT !.mem = c.m], ptr).h, r.ret, "run")

\* lines 256-260 with the old block released before new_ptr is looked at
moved_freeFirst(r, ptr, block) ==
  IF r.st # "run" THEN r
  ELSE IF r.ret = NULL THEN Out(tufree(r.h, ptr).h, NULL, "run")
  ELSE copied(r, memcpy(r.h.mem, r.ret, ptr, r.h.mem[block].size), ptr)

\* lines 256-260: r is what tumalloc answered
moved(r, ptr, block) ==
  IF r.st # "run" \/ r.ret = NULL THEN r
  ELSE copied(r, memcpy(r.h.mem, r.ret, ptr, r.h.mem[block].size), ptr)

\* line 252 with > for >=: a request for exactly the block's size moves it
turealloc_strict(h, ptr, new_size, osOK, ubOK) ==
  IF ptr = NULL THEN tumalloc(h, new_size, osOK, ubOK)
  ELSE IF ptr - HeaderWidth \notin Addrs THEN Out(h, NULL, "crashed")
  ELSE IF h.mem[ptr - HeaderWidth].size > new_size THEN Out(h, ptr, "run")
  ELSE moved(tumalloc(h, new_size, osOK, ubOK), ptr, ptr - HeaderWidth)

turealloc(h, ptr, new_size, osOK, ubOK) ==
  IF ptr = NULL THEN tumalloc(h, new_size, osOK, ubOK)
  ELSE IF ptr - HeaderWidth \notin Addrs THEN Out(h, NULL, "crashed")
  ELSE IF h.mem[ptr - HeaderWidth].size >= new_size THEN Out(h, ptr, "run")
  ELSE moved(tumalloc(h, new_size, osOK, ubOK), ptr, ptr - HeaderWidth)

\* ----------------------------------------------------------------- inputs
Huge0     == SizeMod - 1             \* rounds up to 0
HugeTop   == SizeMod - 20            \* rounds up to SizeMod - 16: sbrk(0)
Sizes     == {0, 16, 32, 64, Huge0, HugeTop}
ReSizes   == {0, 16, 32, Huge0}
CallocArgs == {<<2, 4>>, <<1, Huge0>>, <<SizeMod \div 2, 2>>}

\* wasLive: the pointer the call is about (the argument of a release or resize,
\* the result of an allocation) was live before the call
Call(name, ptr, num, size, ret, wasLive) ==
  [name |-> name, ptr |-> ptr, num |-> num, size |-> size, ret |-> ret,
   wasLive |-> wasLive]

\* who holds what after the caller gave up rel and was handed acq (NULL: none).
\* A pointer handed out while it is live has two holders; a release by one of
\* them leaves it live.
Holders(l, d, rel, acq) ==
  [live |-> ((IF rel \in d THEN l ELSE l \ {rel}) \cup {acq}) \ {NULL},
   dup  |-> ((d \ {rel}) \cup
             (IF acq \in (IF rel \in d THEN l ELSE l \ {rel}) THEN {acq} ELSE {}))
            \ {NULL}]

\* the allocator's variables after a call that produced r
Commit(r) ==
  /\ mem' = r.h.mem
  /\ HEAD' = r.h.HEAD
  /\ next_fit_ptr' = r.h.next_fit_ptr
  /\ brk' = r.h.brk
  /\ blocks' = r.h.blocks
  /\ pc' = r.st
  /\ calls' = calls + 1

\* ------------------------------------------------------------------- Init
Init ==
  /\ mem = [a \in Addrs |-> ZeroCell]
  /\ HEAD = NULL
  /\ next_fit_ptr = NULL
  /\ brk = Base
  /\ blocks = {}
  /\ pc = "run"
  /\ live = {}
  /\ dup = {}
  /\ released = {}
  /\ op = Call("init", NULL, 0, 0, NULL, FALSE)
  /\ calls = 0

\* the calls of resize a caller can make: a live pointer with any of the sizes,
\* or the null pointer with one size (that call is allocate)
ReArgs == (live \X ReSizes) \cup {<<NULL, ALIGNMENT>>}

\* ---------------------------------------------------------------- actions
Malloc ==
  /\ pc = "run"
  /\ calls < MaxCalls
  /\ \E size \in Sizes :
      \E r \in {tumalloc(Heap, size, osOK, ubOK) : osOK \in BOOLEAN, ubOK \in BOOLEAN} :
        /\ Commit(r)
        /\ op' = Call("tumalloc", NULL, 0, size, r.ret, r.ret \in live)
        /\ IF r.st = "run" /\ r.ret # NULL
           THEN /\ live' = Holders(live, dup, NULL, r.ret).live
                /\ dup' = Holders(live, dup, NULL, r.ret).dup
                /\ released' = released \ {r.ret}
           ELSE UNCHANGED <<live, dup, released>>

Calloc ==
  /\ pc = "run"
  /\ calls < MaxCalls
  /\ \E a \in CallocArgs :
      \E r \in {tucalloc(Heap, a[1], a[2], osOK, ubOK) : osOK \in BOOLEAN, ubOK \in BOOLEAN} :
        /\ Commit(r)
        /\ op' = Call("tucalloc", NULL, a[1], a[2], r.ret, r.ret \in live)
        /\ IF r.st = "run" /\ r.ret # NULL
           THEN /\ live' = Holders(live, dup, NULL, r.ret).live
                /\ dup' = Holders(live, dup, NULL, r.ret).dup
                /\ released' = released \ {r.ret}
           ELSE UNCHANGED <<live, dup, released>>

Realloc ==
  /\ pc = "run"
  /\ calls < MaxCalls
  /\ \E a \in ReArgs :
      \E r \in {turealloc(Heap, a[1], a[2], osOK, ubOK) : osOK \in BOOLEAN, ubOK \in BOOLEAN} :
        /\ Commit(r)
        /\ op' = Call("turealloc", a[1], 0, a[2], r.ret, a[1] # NULL)
        /\ IF /\ r.st = "run" /\ r.ret # NULL
              /\ (a[1] = NULL \/ mem[a[1] - HeaderWidth].size < a[2])
           THEN /\ live' = Holders(live, dup, a[1], r.ret).live
                /\ dup' = Holders(live, dup, a[1], r.ret).dup
                /\ released' = (released \cup ({a[1]} \ {NULL})) \ live'
           ELSE UNCHANGED <<live, dup, released>>

Free ==
  /\ pc = "run"
  /\ calls < MaxCalls
  /\ \E ptr \in live \cup {NULL} :
      \E r \in {tufree(Heap, ptr)} :
        /\ Commit(r)
        /\ op' = Call("tufree", ptr, 0, 0, NULL, ptr # NULL)
        /\ IF r.st = "run" /\ ptr # NULL
           THEN /\ live' = Holders(live, dup, ptr, NULL).live
                /\ dup' = Holders(live, dup, ptr, NULL).dup
                /\ released' = (released \cup {ptr}) \ live'
           ELSE UNCHANGED <<live, dup, released>>

\* the caller stores a word pattern in the first 16 bytes of a live region
Write ==
  /\ pc = "run"
  /\ calls < MaxCalls
  /\ \E ptr \in live, v \in Pats :
    /\ ptr \in Addrs
    /\ ptr - HeaderWidth \in Addrs
    /\ mem[ptr - HeaderWidth].size >= ALIGNMENT
    /\ mem' = [mem EXCEPT ![ptr] = [size |-> v, next |-> v]]
    /\ op' = Call("write", ptr, 0, 0, NULL, TRUE)
    /\ calls' = calls + 1
    /\ UNCHANGED <<HEAD, next_fit_ptr, brk, blocks, pc, live, dup, released>>

\* release of a pointer that was released before and not handed out since
DoubleFree ==
  /\ pc = "run"
  /\ calls < MaxCalls
  /\ \E ptr \in released \ live :
      \E r \in {tufree(Heap, ptr)} :
        /\ Commit(r)
        /\ op' = Call("tufree", ptr, 0, 0, NULL, FALSE)
        /\ UNCHANGED <<live, dup, released>>

Next == Malloc \/ Calloc \/ Realloc \/ Free \/ Write

Spec == Init /\ [][Next]_vars

NextMisuse == Malloc \/ Calloc \/ Realloc \/ Free \/ Write \/ DoubleFree

SpecMisuse == Init /\ [][NextMisuse]_vars

\* tufree(ptr) followed by coalesce on the block it has put at the head: the
\* order the allocator's design prescribes for a release
coalesced(r, block) ==
  IF r.st # "run" THEN r ELSE coalesce(r.h, block)

FreeThenCoalesce ==
  /\ pc = "run"
  /\ calls < MaxCalls
  /\ \E ptr \in live :
      \E r \in {coalesced(tufree(Heap, ptr), ptr - HeaderWidth)} :
        /\ Commit(r)
        /\ op' = Call("coalesce", ptr, 0, 0, NULL, TRUE)
        /\ IF r.st = "run"
           THEN /\ live' = Holders(live, dup, ptr, NULL).live
                /\ dup' = Holders(live, dup, ptr, NULL).dup
                /\ released' = (released \cup {ptr}) \ live'
           ELSE UNCHANGED <<live, dup, released>>

NextCoalesce == Malloc \/ FreeThenCoalesce

SpecCoalesce == Init /\ [][NextCoalesce]_vars

\* --------------------------------------------------- views of the state
\* the blocks reachable from head over next links
RECURSIVE Reach(_, _, _)
Reach(m, cur, seen) ==
  IF cur = NULL \/ cur \notin Addrs \/ cur \in seen THEN seen
  ELSE Reach(m, m[cur].next, seen \cup {cur})

FreeList == Reach(mem, HEAD, {})

\* the header of the region ptr points to
Hdr(ptr) == ptr - HeaderWidth

\* address one past the end of the block at b
EndOf(m, b) == b + HeaderWidth + m[b].size

\* ==================================================================== C1
\* C1 (as claimed): releasing a live block of usable size n and then at once
\* calling allocate(n) returns the address of the block just released and
\* leaves the break where it was.
C1_ReuseOverGrowth ==
  [][ ( /\ op.name = "tufree" /\ op.wasLive /\ pc = "run"
        /\ Hdr(op.ptr) \in Addrs
        /\ op'.name = "tumalloc"
        /\ op'.size = mem[Hdr(op.ptr)].size )
      => (op'.ret = op.ptr /\ brk' = brk) ]_vars

\* ==================================================================== C2
\* C2 (as claimed): release merges the freed block with every address-adjacent
\* free block, so after a release no two members of the free list are
\* address-adjacent (three contiguous blocks released in any order end as one).
C2_CoalesceOnRelease ==
  (op.name = "tufree" /\ op.wasLive /\ pc = "run")
    => \A a \in FreeList : \A b \in FreeList : EndOf(mem, a) # b

\* ==================================================================== C3
\* C3 (as claimed): release of a non-null pointer that is not live (already
\* released) ends in fatal termination and does not put the block on the
\* free list.
C3_CorruptionDetection ==
  (op.name = "tufree" /\ op.ptr # NULL /\ ~op.wasLive)
    => (pc # "run" /\ HEAD # Hdr(op.ptr))

\* ==================================================================== C4
\* C4 (as claimed): every block header that exists (made by growth or by a
\* split) is reachable from the free-list head if and only if it is not
\* allocated to a caller.
C4_FreeListMembership ==
  pc = "run" => \A b \in blocks : (b \in FreeList) <=> (b + HeaderWidth \notin live)

\* ==================================================================== C5
\* C5 (as claimed): the extents [header, header + header_width + size) of all
\* blocks are pairwise disjoint, and an allocation never hands out a region
\* that is still live.
C5_NonOverlap ==
  pc = "run" =>
    /\ \A a \in blocks : \A b \in blocks :
         a < b => EndOf(mem, a) <= b
    /\ (op.name \in {"tumalloc", "tucalloc"} /\ op.ret # NULL) => ~op.wasLive

\* ==================================================================== C6
\* C6 (as claimed): for every size of the size type, allocate(size) returns the
\* failure value or a block whose usable size is >= size.
C6_ServedAtLeastRequested ==
  (op.name = "tumalloc" /\ pc = "run" /\ op.ret # NULL /\ Hdr(op.ret) \in Addrs)
    => mem[Hdr(op.ret)].size >= op.size

\* ==================================================================== C7
\* C7 (as claimed): zero_allocate(count, elem_size) returns the failure value
\* when count * elem_size exceeds the range of the size type.
C7_CallocOverflowChecked ==
  (op.name = "tucalloc" /\ pc = "run" /\ op.num * op.size >= SizeMod)
    => op.ret = NULL

\* ==================================================================== C8
\* C8 (as claimed): resize(pointer, 0) on a live pointer releases the block:
\* it returns the empty result, the pointer is no longer live and its block
\* is on the free list.
C8_ResizeZeroReleases ==
  (op.name = "turealloc" /\ op.ptr # NULL /\ op.size = 0 /\ pc = "run")
    => (op.ret = NULL /\ op.ptr \notin live /\ Hdr(op.ptr) \in FreeList)

\* ==================================================================== C9
\* C9 (as claimed): allocate(0) returns the empty result and changes neither
\* the free list, nor the break, nor the next-fit cursor.
C9_AllocateZeroIsNoop ==
  [][ (op'.name = "tumalloc" /\ op'.size = 0 /\ calls' = calls + 1)
      => (op'.ret = NULL /\ UNCHANGED <<mem, HEAD, next_fit_ptr, brk>>) ]_vars

\* =================================================================== C10
\* C10: when the system denies the extension, allocate returns the failure
\* value with memory, free list, cursor, break and live set as they were; a
\* resize that needs a larger block and fails leaves all of these as they
\* were too, and its block stays live.
C10_FailureHasNoSideEffects ==
  [][ ( /\ op'.name \in {"tumalloc", "tucalloc", "turealloc"}
        /\ calls' = calls + 1
        /\ pc' = "run" /\ op'.ret = NULL )
      => ( /\ UNCHANGED <<mem, HEAD, next_fit_ptr, brk, blocks, live, dup>>
           /\ (op'.ptr # NULL => op'.ptr \in live') ) ]_vars

\* a resize of a written live block failed for want of memory, with the free
\* list not empty
C10_Witness ==
  /\ op.name = "turealloc" /\ op.ptr \in live /\ op.ret = NULL /\ pc = "run"
  /\ Hdr(op.ptr) \in Addrs /\ op.ptr \in Addrs
  /\ mem[Hdr(op.ptr)].size < op.size
  /\ mem[op.ptr].size \in Pats
  /\ HEAD # NULL

\* =================================================================== C11
\* C11 (as claimed): a resize of a live pointer p of usable size s to a larger
\* new_size that returns a pointer returns q # p whose block has usable size
\* >= new_size and whose first s bytes are the bytes p's region held before the
\* call; p's block is then on the free list and p is no longer live.
C11_ResizeGrowth ==
  [][ ( /\ op'.name = "turealloc" /\ calls' = calls + 1 /\ pc' = "run"
        /\ op'.ptr \in live /\ Hdr(op'.ptr) \in Addrs
        /\ mem[Hdr(op'.ptr)].size < op'.size
        /\ op'.ret # NULL )
      => ( /\ op'.ret # op'.ptr
           /\ Hdr(op'.ret) \in Addrs
           /\ mem'[Hdr(op'.ret)].size >= op'.size
           /\ \A a \in Addrs :
                (a >= op'.ptr /\ a < op'.ptr + mem[Hdr(op'.ptr)].size)
                  => ( /\ op'.ret + (a - op'.ptr) \in Addrs
                       /\ mem'[op'.ret + (a - op'.ptr)] = mem[a] )
           /\ op'.ptr \notin live'
           /\ Hdr(op'.ptr) \in FreeList' ) ]_vars

\* =================================================================== C12
\* C12: a resize of a live pointer p of usable size s to a new_size with
\* 0 < new_size <= s returns p and leaves memory (the block's size with it),
\* the free list, the cursor, the break and the live set as they were.
C12_ResizeNoGrowthIsNoop ==
  [][ ( /\ op'.name = "turealloc" /\ calls' = calls + 1
        /\ op'.ptr \in live /\ Hdr(op'.ptr) \in Addrs
        /\ 0 < op'.size /\ op'.size <= mem[Hdr(op'.ptr)].size )
      => ( /\ pc' = "run" /\ op'.ret = op'.ptr
           /\ UNCHANGED <<mem, HEAD, next_fit_ptr, brk, blocks, live, dup>> ) ]_vars

\* a resize to less than the size of a live block (one the break bounds) was
\* answered while the free list was not empty
C12_Witness ==
  /\ op.name = "turealloc" /\ op.ptr \in live /\ pc = "run"
  /\ Hdr(op.ptr) \in Addrs
  /\ 0 < op.size /\ op.size < mem[Hdr(op.ptr)].size
  /\ EndOf(mem, Hdr(op.ptr)) <= brk
  /\ HEAD # NULL

\* =================================================================== C13
\* the n bytes at ptr are zero: zeroing them again changes no cell
ZeroBytes(m, ptr, n) ==
  \A a \in {ptr + ALIGNMENT * i : i \in 0 .. MaxCells} :
    a < ptr + n => (a \in Addrs /\ MergeCell(m[a], ZeroCell, Min(ALIGNMENT, ptr + n - a)) = m[a])

\* C13: when count * elem_size = N does not overflow and zero_allocate returns
\* a region, the first N bytes of the region are zero, whatever the served
\* block held before.
C13_ZeroFill ==
  ( /\ op.name = "tucalloc" /\ pc = "run" /\ op.ret # NULL
    /\ op.num * op.size < SizeMod )
    => ZeroBytes(mem, op.ret, op.num * op.size)

\* zero_allocate served a block that no caller held and that still had a
\* caller's pattern in it: the bytes past the first N still hold it
C13_Witness ==
  /\ op.name = "tucalloc" /\ pc = "run" /\ op.ret \in Addrs /\ ~op.wasLive
  /\ EndOf(mem, Hdr(op.ret)) <= brk
  /\ op.num * op.size = 8
  /\ mem[op.ret].size = 0
  /\ mem[op.ret].next \in Pats

\* =================================================================== C14
\* C14 (as claimed): an allocate that returns a block takes only that block
\* off the free list: every other block that was reachable from head before
\* the call is reachable from head after it.
C14_RemovesOnlyChosen ==
  [][ ( /\ op'.name = "tumalloc" /\ calls' = calls + 1 /\ pc' = "run"
        /\ op'.ret # NULL )
      => (FreeList \ {Hdr(op'.ret)}) \subseteq FreeList' ]_vars

\* =================================================================== C15
\* C15 (as claimed): allocate moves the break up only when no block reachable
\* from head has a usable size >= the rounded request (the scan wraps from the
\* cursor to head before the arena grows).
C15_GrowthOnlyOnFullMiss ==
  [][ ( /\ op'.name = "tumalloc" /\ calls' = calls + 1 /\ pc' = "run"
        /\ brk' > brk )
      => \A b \in FreeList : mem[b].size < AlignUp(op'.size) ]_vars

\* =================================================================== C16
\* C16 (as claimed): when allocate splits a free block of size S for a rounded
\* request r, the served block's size becomes r, a header of size
\* S - r - header_width appears at offset r + header_width from the block,
\* and that remainder is reachable from head after the call.
C16_SplitRemainderStaysFree ==
  [][ ( /\ op'.name = "tumalloc" /\ calls' = calls + 1 /\ pc' = "run"
        /\ op'.ret # NULL /\ Hdr(op'.ret) \in FreeList
        /\ blocks' # blocks )
      => ( /\ mem'[Hdr(op'.ret)].size = AlignUp(op'.size)
           /\ op'.ret + AlignUp(op'.size) \in blocks' \ blocks
           /\ mem'[op'.ret + AlignUp(op'.size)].size
                = mem[Hdr(op'.ret)].size - AlignUp(op'.size) - HeaderWidth
           /\ op'.ret + AlignUp(op'.size) \in FreeList' ) ]_vars

\* =================================================================== C17
\* C17 (as claimed): the next-fit cursor is empty or references a block that
\* is reachable from head; it never references a block a caller holds.
C17_CursorValid ==
  pc = "run" =>
    \/ next_fit_ptr = NULL
    \/ next_fit_ptr \in FreeList /\ next_fit_ptr + HeaderWidth \notin live

\* =================================================================== C18
\* the block the scan of allocate(size) stops at in the heap h
chosen(h, size) ==
  scan(h.mem, AlignUp(size),
       IF h.next_fit_ptr # NULL THEN h.next_fit_ptr ELSE h.HEAD, NULL, MaxCells)

\* C18 (as claimed): allocate splits the chosen free block exactly when its
\* size is >= rounded request + header_width + 1; otherwise the block is
\* handed out with its size unchanged and no header is made; every header a
\* split makes has size >= 1.
C18_NoSlivers ==
  [][ ( /\ op'.name = "tumalloc" /\ calls' = calls + 1 /\ pc' = "run"
        /\ op'.ret # NULL /\ chosen(Heap, op'.size).kind = "fit" )
      => ( /\ (mem[chosen(Heap, op'.size).current].size
                  >= AlignUp(op'.size) + HeaderWidth + 1)
               <=> ( \/ blocks' # blocks
                     \/ mem'[chosen(Heap, op'.size).current].size
                          # mem[chosen(Heap, op'.size).current].size )
           /\ \A b \in blocks' \ blocks : mem'[b].size >= 1 ) ]_vars

\* =================================================================== C19
\* the headers that a block grew over in this step
Absorbed ==
  {b \in blocks : \E a \in blocks :
     a < b /\ EndOf(mem, a) <= b /\ EndOf(mem', a) > b}

\* C19 (as claimed): after coalesce on a block that release has just put at
\* the head, no header that was absorbed is reachable from head, the extents
\* of the free-list members are pairwise disjoint, and a block grew only over
\* free blocks that began where it ended.
C19_CoalesceNoStaleLinks ==
  [][ ( op'.name = "coalesce" /\ calls' = calls + 1 /\ pc' = "run" )
      => ( /\ \A b \in Absorbed : b \notin FreeList'
           /\ \A a \in FreeList' : \A b \in FreeList' :
                a < b => EndOf(mem', a) <= b
           /\ \A a \in blocks :
                mem'[a].size # mem[a].size
                  => /\ a \in FreeList \cup {Hdr(op'.ptr)}
                     /\ EndOf(mem, a) \in FreeList \cup {Hdr(op'.ptr)}
                     /\ \E b \in FreeList \cup {Hdr(op'.ptr)} :
                          EndOf(mem', a) = EndOf(mem, b) ) ]_vars

\* =================================================================== C20
\* the walk from cur over next links comes back to a cell it has visited
RECURSIVE Cyclic(_, _, _)
Cyclic(m, cur, seen) ==
  IF cur = NULL \/ cur \notin Addrs THEN FALSE
  ELSE IF cur \in seen THEN TRUE
  ELSE Cyclic(m, m[cur].next, seen \cup {cur})

\* C20 (as claimed): when release is applied only to pointers a caller holds,
\* the chain from head is finite and without a cycle (no block is in it
\* twice), and the scan of allocate ends.
C20_FreeListWellFormed ==
  pc # "hung" /\ (pc = "run" => ~Cyclic(mem, HEAD, {}))

====
